---- MODULE Spec2Model ----
(***************************************************************************)
(* Model of the Raspberry Pi face-capture scripts capture_faces.py and     *)
(* camera_stream.py: camera opening with retries, the capture loops with   *)
(* their cooldown and sync timers, the local captures table and the        *)
(* forwarding of its rows to the remote (Supabase REST).                   *)
(*                                                                         *)
(* Time is discrete (one tick = one second).  The code reads the clock     *)
(* only through differences time.time() - last_*_ts, so the model keeps    *)
(* the age of every timestamp, saturated at MaxAge (MaxAge means "at       *)
(* least MaxAge seconds ago").                                             *)
(***************************************************************************)
EXTENDS Integers, Sequences, FiniteSets

\* ------------------------------------------------------------------ bounds
MaxRows == 2
MaxAge == 5

\* ------------------------------------------------------- program constants
cooldown_seconds == 3
sync_interval == 5
max_failures == 10
max_retries == 5
base_delay == 5
first_retry_delay == 3
loop_batch == 50
final_batch == 200
default_batch == 20

\* requests.post raising (timeout, connection error) is written as status 0.
RequestException == 0
PostOutcomes == {RequestException, 201, 204, 500}

RowIds == 1..MaxRows

Range(s) == {s[k] : k \in 1..Len(s)}

Min(a, b) == IF a <= b THEN a ELSE b

\* --------------------------------------------------------- the local table
\* The same query without its LIMIT.
RECURSIVE fetch_pending_cf_nolimit(_, _)
fetch_pending_cf_nolimit(tbl, limit) ==
    IF tbl = {} THEN <<>>
    ELSE LET lo == CHOOSE i \in tbl : \A j \in tbl : i <= j
         IN <<lo>> \o fetch_pending_cf_nolimit(tbl \ {lo}, limit)

\* SELECT ... ORDER BY id ASC LIMIT ?  (capture_faces.py)
RECURSIVE fetch_pending_cf(_, _)
fetch_pending_cf(tbl, limit) ==
    IF tbl = {} \/ limit <= 0 THEN <<>>
    ELSE LET lo == CHOOSE i \in tbl : \A j \in tbl : i <= j
         IN <<lo>> \o fetch_pending_cf(tbl \ {lo}, limit - 1)

\* SELECT ... LIMIT ?  (camera_stream.py): no ORDER BY; SQLite answers this
\* query by a scan of the rowid b-tree, that is in ascending id order.
RECURSIVE fetch_pending_cs(_, _)
fetch_pending_cs(tbl, limit) ==
    IF tbl = {} \/ limit <= 0 THEN <<>>
    ELSE LET lo == CHOOSE i \in tbl : \A j \in tbl : i <= j
         IN <<lo>> \o fetch_pending_cs(tbl \ {lo}, limit - 1)

\* DELETE FROM captures WHERE id IN (...); ok = FALSE: sqlite raised.
delete_local(tbl, ids, ok) == IF ok THEN tbl \ Range(ids) ELSE tbl

\* ------------------------------------------------------------ sync_supabase
\* A success test without its upper bound.
Is2xx_lax(status) == status >= 200
\* 200 <= resp.status_code < 300  (capture_faces.py)
Is2xx(status) == 200 <= status /\ status < 300

\* response.status_code in [200, 201]  (camera_stream.py)
IsOkCreated(status) == status \in {200, 201}

BatchPost(rows, status) == [kind |-> "batch", ids |-> rows, status |-> status]
SinglePost(id, status) == [kind |-> "single", ids |-> <<id>>, status |-> status]
NoSync(tbl) == [captures |-> tbl, posts |-> <<>>]

\* A fallback loop whose try/except is around the loop instead of inside it:
\* the first raising POST ends it.
RECURSIVE cf_fallback_stop(_, _, _, _, _, _)
cf_fallback_stop(rows, k, tbl, posts, outs, dels) ==
    IF k > Len(rows) THEN [captures |-> tbl, posts |-> posts]
    ELSE LET st == outs[k + 1]
             sent == Append(posts, SinglePost(rows[k], st))
         IN IF st = RequestException THEN [captures |-> tbl, posts |-> sent]
            ELSE IF Is2xx(st)
                 THEN cf_fallback_stop(rows, k + 1, delete_local(tbl, <<rows[k]>>, dels[k + 1]),
                                       sent, outs, dels)
                 ELSE cf_fallback_stop(rows, k + 1, tbl, sent, outs, dels)

\* capture_faces.py, the per-row fallback loop: row k is posted with outcome
\* outs[k+1] and deleted by its own _delete_local call (outcome dels[k+1]);
\* every exception is caught inside the loop body.
RECURSIVE cf_fallback(_, _, _, _, _, _)
cf_fallback(rows, k, tbl, posts, outs, dels) ==
    IF k > Len(rows) THEN [captures |-> tbl, posts |-> posts]
    ELSE LET st == outs[k + 1]
             sent == Append(posts, SinglePost(rows[k], st))
         IN IF Is2xx(st)
            THEN cf_fallback(rows, k + 1, delete_local(tbl, <<rows[k]>>, dels[k + 1]),
                             sent, outs, dels)
            ELSE cf_fallback(rows, k + 1, tbl, sent, outs, dels)

\* A sync_supabase without the test of SUPABASE_URL and SUPABASE_ANON_KEY.
sync_supabase_cf_nogate(has_keys, tbl, max_batch, outs, dels) ==
    LET rows == fetch_pending_cf(tbl, max_batch)
    IN IF rows = <<>> THEN NoSync(tbl)
       ELSE IF Is2xx(outs[1]) /\ dels[1]
            THEN [captures |-> delete_local(tbl, rows, TRUE),
                  posts |-> <<BatchPost(rows, outs[1])>>]
            ELSE cf_fallback(rows, 1, tbl, <<BatchPost(rows, outs[1])>>, outs, dels)

\* capture_faces.sync_supabase.  outs[1] is the outcome of the batch POST,
\* dels[1] of the batch delete.  A raise of _delete_local after an accepted
\* batch is caught by the same except clause as a failed POST and falls
\* through to the per-row loop.
sync_supabase_cf(has_keys, tbl, max_batch, outs, dels) ==
    LET rows == fetch_pending_cf(tbl, max_batch)
    IN IF ~has_keys \/ rows = <<>> THEN NoSync(tbl)
       ELSE IF Is2xx(outs[1]) /\ dels[1]
            THEN [captures |-> delete_local(tbl, rows, TRUE),
                  posts |-> <<BatchPost(rows, outs[1])>>]
            ELSE cf_fallback(rows, 1, tbl, <<BatchPost(rows, outs[1])>>, outs, dels)

\* camera_stream.py, the per-row loop: accepted ids are collected in
\* success_ids; a raising POST leaves the loop and the function through the
\* outer except, before the single _delete_local(success_ids).
RECURSIVE cs_individual(_, _, _, _, _, _)
cs_individual(rows, k, tbl, posts, success_ids, outs) ==
    IF k > Len(rows) THEN [posts |-> posts, success_ids |-> success_ids, raised |-> FALSE]
    ELSE LET st == outs[k + 1]
             sent == Append(posts, SinglePost(rows[k], st))
         IN IF st = RequestException
            THEN [posts |-> sent, success_ids |-> success_ids, raised |-> TRUE]
            ELSE cs_individual(rows, k + 1, tbl, sent,
                               IF IsOkCreated(st) THEN Append(success_ids, rows[k])
                               ELSE success_ids, outs)

\* camera_stream.sync_supabase: the whole body is inside one try/except.
sync_supabase_cs(has_keys, tbl, max_batch, outs, dels) ==
    LET rows == fetch_pending_cs(tbl, max_batch)
        batch == <<BatchPost(rows, outs[1])>>
    IN IF ~has_keys \/ rows = <<>> THEN NoSync(tbl)
       ELSE IF outs[1] = RequestException THEN [captures |-> tbl, posts |-> batch]
       ELSE IF IsOkCreated(outs[1])
            THEN [captures |-> delete_local(tbl, rows, dels[1]), posts |-> batch]
            ELSE LET r == cs_individual(rows, 1, tbl, batch, <<>>, outs)
                 IN [captures |-> IF r.raised THEN tbl
                                  ELSE delete_local(tbl, r.success_ids, dels[1]),
                     posts |-> r.posts]

\* The remote stored the rows of a POST exactly when it answered with a
\* status of the 2xx class.
RemoteAccepted(status) == status \in 200..299

\* The ids the remote accepted in a list of POSTs.
AcceptedIds(posts) ==
    UNION {Range(posts[k].ids) : k \in {j \in 1..Len(posts) : RemoteAccepted(posts[j].status)}}

\* ------------------------------------------------------------------ state
VARIABLES
    script,               \* which program runs
    configured,           \* SUPABASE_URL and SUPABASE_ANON_KEY are both set
    remote_accepts,       \* environment: the remote answers every POST with 2xx
    sqlite_faults,        \* environment: _delete_local may raise
    camera_ok,            \* environment of capture_faces: the camera is available
    pc,                   \* position of the main thread
    captures,             \* ids of the rows of the local captures table
    next_id,              \* the AUTOINCREMENT id of the next inserted row
    remote,               \* ids of the rows the remote accepted
    since_saved,          \* age of last_saved_ts
    since_sync,           \* age of last_sync_ts
    since_save_call,      \* age of the latest successful save_capture call
    since_sync_call,      \* age of the latest sync_supabase call made by a loop
    sleep_left,           \* seconds left of the running time.sleep
    attempt, retry_delay, \* try_open_camera_with_retries
    delays,               \* the retry_delay values passed to try_open_camera so far
    open_calls,           \* calls of try_open_camera made by the retry loop
    cap,                  \* capture_faces: the camera handle
    consecutive_failures,
    fail_run,             \* failed reads since the last successful read or reconnect
    camera,               \* camera_stream: the global camera handle
    is_streaming, face_detector, server,
    tpc,                  \* position of the capture_frames thread
    since_current_time,   \* age of capture_frames' current_time sample
    sync_due,             \* (current_time - last_sync_ts) >= sync_interval, as sampled
    trial, out_cf, out_cs \* one sync_supabase call of each script on the same input

\* try_open_camera followed probe by probe.
VARIABLES
    system,               \* platform.system().lower()
    ppc,                  \* position: "idle", "construct", "test", "returned"
    phase,                \* capture_faces: "api" loop, "noapi" loop, "end"
    api_at, idx_at,       \* positions of the loops over the APIs and the indices
    probe_cap,            \* the local cap of try_open_camera
    probe_log,            \* the probes made by the running call, with their results
    result,               \* what the call returned: "handle" or "None"
    held,                 \* the caller's handle: cap of main, the global camera
    live_handles          \* VideoCapture objects opened and not released

VARIABLES
    bad_rows,             \* environment: ids of the rows the remote never accepts
    accepted_again,       \* ids the remote accepted more than once
    sync_timed            \* the loops' sync_supabase calls are timed (since_sync_call)

envVars == <<script, configured, remote_accepts, sqlite_faults, camera_ok>>
dbVars == <<captures, next_id, remote>>
saveVars == <<since_saved, since_save_call>>
retryVars == <<attempt, retry_delay, delays, open_calls>>
failVars == <<consecutive_failures, fail_run>>
streamVars == <<camera, is_streaming, face_detector, server, tpc,
                since_current_time, sync_due>>
trialVars == <<trial, out_cf, out_cs>>
probeVars == <<system, ppc, phase, api_at, idx_at, probe_cap, probe_log, result, held,
               live_handles>>
callVars == <<bad_rows, accepted_again>>
watchVars == <<sync_timed>>
harness == <<trialVars, probeVars, callVars, watchVars>>
ghostVars == <<since_sync_call>>

vars == <<envVars, pc, dbVars, saveVars, since_sync, sleep_left, retryVars, cap,
          failVars, streamVars, harness, ghostVars>>

OutcomeSeqs(n) == [1..n -> PostOutcomes]

AcceptingOutcomes == {s \in PostOutcomes : RemoteAccepted(s)}

\* The outcomes the environment may give to the POSTs of one sync of n rows.
SyncOutcomes(n) ==
    [1..(n + 1) -> IF remote_accepts THEN AcceptingOutcomes ELSE PostOutcomes]

\* The outcomes of the _delete_local calls of one sync of n rows.
DeleteOutcomes(n) == [1..(n + 1) -> IF sqlite_faults THEN BOOLEAN ELSE {TRUE}]

\* The remote after the POSTs of one sync: it holds the rows of every POST it
\* answered with 2xx.
Accept(rem, posts) == rem \cup AcceptedIds(posts)

Older(age) == Min(MaxAge, age + 1)

\* The age of the latest sync_supabase call of a loop, followed only in the
\* specifications that time the calls.
CallAge(age) == IF sync_timed THEN age ELSE MaxAge

\* The process has ended: its timers are read no more.
TimersGone ==
    /\ since_saved' = MaxAge
    /\ since_sync' = MaxAge
    /\ since_save_call' = MaxAge
    /\ since_sync_call' = MaxAge
    /\ since_current_time' = MaxAge
    /\ sleep_left' = 0
    /\ sync_due' = FALSE

\* ------------------------------------------------------------ initial states
\* No try_open_camera call is followed probe by probe.
IdleProbe ==
    /\ system = "linux"
    /\ ppc = "idle"
    /\ phase = "api"
    /\ api_at = 1
    /\ idx_at = 1
    /\ probe_cap = "none"
    /\ probe_log = <<>>
    /\ result = "none"
    /\ held = "none"
    /\ live_handles = 0

\* No row is rejected for ever; nothing was accepted twice.
IdleCalls ==
    /\ bad_rows = {}
    /\ accepted_again = {}
    /\ sync_timed = FALSE

IdleHarness ==
    /\ trial = [captures |-> {}, max_batch |-> 1, outs |-> <<>>, ran |-> FALSE]
    /\ out_cf = NoSync({})
    /\ out_cs = NoSync({})
    /\ IdleProbe
    /\ IdleCalls

\* Rows left in the table by earlier runs: ids 1..n, none accepted so far.
InitDb ==
    \E n \in 0..1 :
        /\ captures = 1..n
        /\ next_id = n + 1
        /\ remote = {}

InitProcess ==
    /\ since_save_call = MaxAge
    /\ since_sync_call = MaxAge
    /\ sleep_left = 0
    /\ attempt = 0
    /\ retry_delay = 0
    /\ delays = <<>>
    /\ open_calls = 0
    /\ cap = "none"
    /\ consecutive_failures = 0
    /\ fail_run = 0
    /\ camera = "none"
    /\ is_streaming = FALSE
    /\ server = FALSE
    /\ tpc = "idle"
    /\ since_current_time = MaxAge
    /\ sync_due = FALSE

InitCommon ==
    /\ configured \in BOOLEAN
    /\ sqlite_faults = FALSE
    /\ InitDb
    /\ InitProcess
    /\ IdleHarness

\* capture_faces.main after init_db and the cascade load: last_saved_ts and
\* last_sync_ts are 0.0, far in the past.
InitCaptureFaces ==
    /\ script = "capture_faces"
    /\ pc = "retries"
    /\ since_saved = MaxAge
    /\ since_sync = MaxAge
    /\ face_detector = TRUE

\* camera_stream.main after init_face_detector and the assignment of the
\* current time to last_saved_ts and last_sync_ts.
InitCameraStream ==
    /\ script = "camera_stream"
    /\ pc = "start_camera"
    /\ since_saved = 0
    /\ since_sync = 0
    /\ face_detector \in BOOLEAN

Init ==
    /\ remote_accepts = FALSE
    /\ camera_ok = FALSE
    /\ InitCommon
    /\ InitCaptureFaces \/ InitCameraStream

\* --------------------------------------------------------------- the clock
Tick ==
    /\ pc \notin {"exit", "done"}
    /\ since_saved' = Older(since_saved)
    /\ since_sync' = Older(since_sync)
    /\ since_save_call' = Older(since_save_call)
    /\ since_sync_call' = CallAge(Older(since_sync_call))
    /\ since_current_time' = Older(since_current_time)
    /\ sleep_left' = IF sleep_left > 0 THEN sleep_left - 1 ELSE 0
    /\ UNCHANGED <<envVars, pc, dbVars, retryVars, cap, failVars, camera,
                   is_streaming, face_detector, server, tpc, sync_due, harness>>

\* ------------------------------------ capture_faces: opening the camera
\* retry_delay = 3.0 if attempt == 0 else base_delay + (attempt * 3)
RetryDelay(att) == IF att = 0 THEN first_retry_delay ELSE base_delay + att * 3

\* wait_time = base_delay + (attempt * 2)
WaitTime(att) == base_delay + att * 2

\* Top of the for loop: the delay is computed and try_open_camera starts with
\* its stabilisation sleep.
cf_retry_begin ==
    /\ script = "capture_faces" /\ pc = "retries"
    /\ retry_delay' = RetryDelay(attempt)
    /\ delays' = Append(delays, RetryDelay(attempt))
    /\ open_calls' = open_calls + 1
    /\ sleep_left' = RetryDelay(attempt)
    /\ pc' = "opening"
    /\ UNCHANGED <<envVars, dbVars, saveVars, since_sync, attempt, cap, failVars,
                   streamVars, harness, ghostVars>>

\* A loop that goes one attempt too far.
LastAttempt_off(att) == att >= max_retries
\* if attempt < max_retries - 1: wait and go on; else the loop ends.
LastAttempt(att) == att >= max_retries - 1

\* What try_open_camera may return: with the camera available it finds a
\* handle; otherwise it may or may not.
OpenOutcomes == IF camera_ok THEN {TRUE} ELSE BOOLEAN

\* try_open_camera returns: a handle ends the loop; None leads to the wait
\* before the next attempt, or after the last attempt to return None and
\* sys.exit(1) in main.
cf_retry_probe ==
    /\ script = "capture_faces" /\ pc = "opening" /\ sleep_left = 0
    /\ \E opened \in OpenOutcomes :
          IF opened
          THEN /\ cap' = "open"
               /\ pc' = "opened"
               /\ UNCHANGED sleep_left
          ELSE /\ cap' = "none"
               /\ IF LastAttempt(attempt)
                  THEN pc' = "failed" /\ UNCHANGED sleep_left
                  ELSE pc' = "retry_wait" /\ sleep_left' = WaitTime(attempt)
    /\ UNCHANGED <<envVars, dbVars, saveVars, since_sync, retryVars, failVars,
                   streamVars, harness, ghostVars>>

cf_retry_wait ==
    /\ script = "capture_faces" /\ pc = "retry_wait" /\ sleep_left = 0
    /\ attempt' = attempt + 1
    /\ pc' = "retries"
    /\ UNCHANGED <<envVars, dbVars, saveVars, since_sync, sleep_left, retry_delay,
                   delays, open_calls, cap, failVars, streamVars, harness, ghostVars>>

\* try_open_camera_with_retries returns and its locals are gone: main enters
\* its loop with the handle, or leaves through sys.exit(1) without one.
cf_retry_return ==
    /\ script = "capture_faces" /\ pc \in {"opened", "failed"}
    /\ pc' = IF pc = "opened" THEN "read" ELSE "exit"
    /\ attempt' = 0
    /\ retry_delay' = 0
    /\ delays' = <<>>
    /\ open_calls' = 0
    /\ UNCHANGED <<envVars, dbVars, saveVars, since_sync, sleep_left, cap, failVars,
                   streamVars, harness, ghostVars>>

\* ------------------------------------------- capture_faces: the main loop
LoopPcs == {"read", "reconnect", "reconnecting", "reconnect_wait", "sync_noframe",
            "stamp_noframe", "detect", "saving", "sync", "stamp"}

\* cap.read(): a released handle, or one that went stale while the camera was
\* away, gives no frame; an open handle gives one when the camera is
\* available, and may or may not otherwise.
ReadOutcomes(handle) ==
    IF handle # "open" THEN {FALSE} ELSE IF camera_ok THEN {TRUE} ELSE BOOLEAN

\* if consecutive_failures >= max_failures: reconnect, else fall to the sync test.
AfterFailure(n) == IF n >= max_failures THEN "reconnect" ELSE "sync_noframe"

\* A loop that forgets the reset after a good read.
AfterGoodRead_keep(n) == n
\* consecutive_failures = 0 after a successful read.
AfterGoodRead(n) == 0

\* ret, frame = cap.read() and the bookkeeping of consecutive_failures.
cf_read ==
    /\ script = "capture_faces" /\ pc = "read"
    /\ \E ret \in ReadOutcomes(cap) :
          IF ret
          THEN /\ consecutive_failures' = AfterGoodRead(consecutive_failures)
               /\ fail_run' = 0
               /\ pc' = "detect"
          ELSE /\ consecutive_failures' = consecutive_failures + 1
               /\ fail_run' = fail_run + 1
               /\ pc' = AfterFailure(consecutive_failures + 1)
    /\ UNCHANGED <<envVars, dbVars, saveVars, since_sync, sleep_left, retryVars, cap,
                   streamVars, harness, ghostVars>>

\* reconnect_camera: the old handle is released, then time.sleep(1.0).
cf_reconnect ==
    /\ script = "capture_faces" /\ pc = "reconnect"
    /\ cap' = "released"
    /\ fail_run' = 0
    /\ sleep_left' = 1
    /\ pc' = "reconnecting"
    /\ UNCHANGED <<envVars, dbVars, saveVars, since_sync, retryVars,
                   consecutive_failures, streamVars, harness, ghostVars>>

\* A loop that forgets cap = new_cap after a successful reconnect.
cf_reconnect_probe_forget ==
    /\ script = "capture_faces" /\ pc = "reconnecting" /\ sleep_left = 0
    /\ \E opened \in OpenOutcomes :
          IF opened
          THEN /\ consecutive_failures' = 0
               /\ pc' = "sync_noframe"
               /\ UNCHANGED <<cap, sleep_left>>
          ELSE /\ sleep_left' = 10
               /\ pc' = "reconnect_wait"
               /\ UNCHANGED <<cap, consecutive_failures>>
    /\ UNCHANGED <<envVars, dbVars, saveVars, since_sync, retryVars, fail_run,
                   streamVars, harness, ghostVars>>

\* try_open_camera(retry_delay=0) returns inside reconnect_camera.
cf_reconnect_probe ==
    /\ script = "capture_faces" /\ pc = "reconnecting" /\ sleep_left = 0
    /\ \E opened \in OpenOutcomes :
          IF opened
          THEN /\ cap' = "open"
               /\ consecutive_failures' = 0
               /\ pc' = "sync_noframe"
               /\ UNCHANGED sleep_left
          ELSE /\ sleep_left' = 10
               /\ pc' = "reconnect_wait"
               /\ UNCHANGED <<cap, consecutive_failures>>
    /\ UNCHANGED <<envVars, dbVars, saveVars, since_sync, retryVars, fail_run,
                   streamVars, harness, ghostVars>>

\* After the time.sleep(10) of a failed reconnect.
cf_reconnect_wait ==
    /\ script = "capture_faces" /\ pc = "reconnect_wait" /\ sleep_left = 0
    /\ consecutive_failures' = 0
    /\ pc' = "sync_noframe"
    /\ UNCHANGED <<envVars, dbVars, saveVars, since_sync, sleep_left, retryVars, cap,
                   fail_run, streamVars, harness, ghostVars>>

\* (time.time() - last_sync_ts) >= sync_interval
SyncDue(age) == age >= sync_interval

\* The rows one call can fetch, hence the POSTs it can make beyond the batch
\* POST: none without the keys, at most max_batch otherwise.
Requests(max_batch) ==
    IF configured THEN Min(max_batch, Cardinality(captures)) ELSE 0

\* The database and remote effect of one capture_faces.sync_supabase call.
SyncCallCF(max_batch) ==
    \E outs \in SyncOutcomes(Requests(max_batch)),
       dels \in DeleteOutcomes(Requests(max_batch)) :
        LET r == sync_supabase_cf(configured, captures, max_batch, outs, dels)
        IN /\ captures' = r.captures
           /\ remote' = Accept(remote, r.posts)
           /\ UNCHANGED next_id

\* A loop that syncs only in iterations that had a frame.
NoFrameSyncDue_never(age) == FALSE
\* The same test, made in the branch of a failed read.
NoFrameSyncDue(age) == SyncDue(age)

\* if (time.time() - last_sync_ts) >= sync_interval: sync_supabase(max_batch=50)
\* in the branch of a failed read.
cf_sync_noframe ==
    /\ script = "capture_faces" /\ pc = "sync_noframe"
    /\ IF NoFrameSyncDue(since_sync)
       THEN SyncCallCF(loop_batch) /\ pc' = "stamp_noframe" /\ since_sync_call' = CallAge(0)
       ELSE UNCHANGED dbVars /\ pc' = "read" /\ UNCHANGED since_sync_call
    /\ UNCHANGED <<envVars, saveVars, since_sync, sleep_left, retryVars, cap, failVars,
                   streamVars, harness>>

\* last_sync_ts = time.time(), then time.sleep(0.5) and continue.
cf_stamp_noframe ==
    /\ script = "capture_faces" /\ pc = "stamp_noframe"
    /\ since_sync' = 0
    /\ pc' = "read"
    /\ UNCHANGED <<envVars, dbVars, saveVars, sleep_left, retryVars, cap, failVars,
                   streamVars, harness, ghostVars>>

\* (time.time() - last_saved_ts) >= cooldown_seconds
CooldownOver(age) == age >= cooldown_seconds

\* detectMultiScale and the test of the cooldown.
cf_detect ==
    /\ script = "capture_faces" /\ pc = "detect"
    /\ \E faces \in BOOLEAN :
          pc' = IF faces /\ CooldownOver(since_saved) THEN "saving" ELSE "sync"
    /\ UNCHANGED <<envVars, dbVars, saveVars, since_sync, sleep_left, retryVars, cap,
                   failVars, streamVars, harness, ghostVars>>

\* encode_image_to_base64, save_capture and last_saved_ts = time.time(); an
\* exception of the first two is caught and leaves last_saved_ts alone.
cf_save ==
    /\ script = "capture_faces" /\ pc = "saving"
    /\ \/ /\ next_id <= MaxRows
          /\ captures' = captures \cup {next_id}
          /\ next_id' = next_id + 1
          /\ since_save_call' = 0
          /\ since_saved' = 0
          /\ UNCHANGED remote
       \/ UNCHANGED <<dbVars, saveVars>>
    /\ pc' = "sync"
    /\ UNCHANGED <<envVars, since_sync, sleep_left, retryVars, cap, failVars,
                   streamVars, harness, ghostVars>>

\* The periodic sync at the end of an iteration that had a frame.
cf_sync ==
    /\ script = "capture_faces" /\ pc = "sync"
    /\ IF SyncDue(since_sync)
       THEN SyncCallCF(loop_batch) /\ pc' = "stamp" /\ since_sync_call' = CallAge(0)
       ELSE UNCHANGED dbVars /\ pc' = "read" /\ UNCHANGED since_sync_call
    /\ UNCHANGED <<envVars, saveVars, since_sync, sleep_left, retryVars, cap, failVars,
                   streamVars, harness>>

\* last_sync_ts = time.time(), then time.sleep(0.01).
cf_stamp ==
    /\ script = "capture_faces" /\ pc = "stamp"
    /\ since_sync' = 0
    /\ pc' = "read"
    /\ UNCHANGED <<envVars, dbVars, saveVars, sleep_left, retryVars, cap, failVars,
                   streamVars, harness, ghostVars>>

\* Ctrl+C, or an exception raised in the loop: control goes to the finally block.
cf_interrupt ==
    /\ script = "capture_faces" /\ pc \in LoopPcs
    /\ pc' = "finally"
    /\ sleep_left' = 0
    /\ UNCHANGED <<envVars, dbVars, saveVars, since_sync, retryVars, cap, failVars,
                   streamVars, harness, ghostVars>>

\* A finally block whose sync is not wrapped in try/except: the exception
\* leaves main before cap.release().
AfterFinalSync_propagate(raised) == IF raised THEN "done" ELSE "release"
\* try: sync_supabase(max_batch=200) except Exception: pass -- the next
\* statement is cap.release() either way.
AfterFinalSync(raised) == "release"

\* finally: sync_supabase(max_batch=200), exceptions swallowed.  The call
\* raises when _fetch_pending does (it is outside sync_supabase's own try),
\* before any POST or delete.
cf_final_sync ==
    /\ script = "capture_faces" /\ pc = "finally"
    /\ \E raised \in BOOLEAN :
          /\ IF raised THEN UNCHANGED dbVars ELSE SyncCallCF(final_batch)
          /\ pc' = AfterFinalSync(raised)
    /\ UNCHANGED <<envVars, saveVars, since_sync, sleep_left, retryVars, cap, failVars,
                   streamVars, harness, ghostVars>>

\* cap.release()
cf_release ==
    /\ script = "capture_faces" /\ pc = "release"
    /\ cap' = "released"
    /\ pc' = "done"
    /\ TimersGone
    /\ UNCHANGED <<envVars, dbVars, retryVars, failVars, camera, is_streaming,
                   face_detector, server, tpc, harness>>

\* ------------------------------------------- camera_stream: main thread
\* A start_camera that sets is_streaming and starts the thread before it
\* looks at the result of try_open_camera.
cs_start_camera_eager ==
    /\ script = "camera_stream" /\ pc = "start_camera"
    /\ is_streaming' = TRUE
    /\ tpc' = "top"
    /\ \E opened \in BOOLEAN :
          IF opened
          THEN camera' = "open" /\ pc' = "started"
          ELSE pc' = "done" /\ UNCHANGED camera
    /\ UNCHANGED <<envVars, dbVars, saveVars, since_sync, sleep_left, retryVars, cap,
                   failVars, face_detector, server, since_current_time, sync_due,
                   harness, ghostVars>>

\* start_camera: try_open_camera, then is_streaming = True and the start of
\* the capture thread; False is returned when no camera opened.
cs_start_camera ==
    /\ script = "camera_stream" /\ pc = "start_camera"
    /\ \E opened \in BOOLEAN :
          IF opened
          THEN /\ camera' = "open"
               /\ is_streaming' = TRUE
               /\ tpc' = "top"
               /\ pc' = "started"
          ELSE /\ pc' = "done"
               /\ UNCHANGED <<camera, is_streaming, tpc>>
    /\ UNCHANGED <<envVars, dbVars, saveVars, since_sync, sleep_left, retryVars, cap,
                   failVars, face_detector, server, since_current_time, sync_due,
                   harness, ghostVars>>

\* app.run(...)
cs_app_run ==
    /\ script = "camera_stream" /\ pc = "started"
    /\ server' = TRUE
    /\ pc' = "serving"
    /\ UNCHANGED <<envVars, dbVars, saveVars, since_sync, sleep_left, retryVars, cap,
                   failVars, camera, is_streaming, face_detector, tpc,
                   since_current_time, sync_due, harness, ghostVars>>

\* stop_camera: is_streaming = False, camera.release(), camera = None.
stop_camera ==
    /\ is_streaming' = FALSE
    /\ camera' = "none"

\* Ctrl+C while main runs: the handler calls stop_camera and goes on to the
\* final sync.
cs_interrupt ==
    /\ script = "camera_stream" /\ pc \in {"started", "serving"}
    /\ stop_camera
    /\ server' = FALSE
    /\ pc' = "final_sync"
    /\ UNCHANGED <<envVars, dbVars, saveVars, since_sync, sleep_left, retryVars, cap,
                   failVars, face_detector, tpc, since_current_time, sync_due, harness, ghostVars>>

\* Any other exception out of main (app.run failing): stop_camera, no sync.
cs_error ==
    /\ script = "camera_stream" /\ pc \in {"started", "serving"}
    /\ stop_camera
    /\ server' = FALSE
    /\ pc' = "done"
    /\ TimersGone
    /\ UNCHANGED <<envVars, dbVars, retryVars, cap, failVars, face_detector, tpc,
                   harness>>

\* The database and remote effect of one camera_stream.sync_supabase call.
SyncCallCS(max_batch) ==
    \E outs \in SyncOutcomes(Requests(max_batch)),
       dels \in DeleteOutcomes(Requests(max_batch)) :
        LET r == sync_supabase_cs(configured, captures, max_batch, outs, dels)
        IN /\ captures' = r.captures
           /\ remote' = Accept(remote, r.posts)
           /\ UNCHANGED next_id

\* The final sync_supabase() of the KeyboardInterrupt handler.
cs_final_sync ==
    /\ script = "camera_stream" /\ pc = "final_sync"
    /\ SyncCallCS(default_batch)
    /\ pc' = "done"
    /\ TimersGone
    /\ UNCHANGED <<envVars, retryVars, cap, failVars, camera, is_streaming,
                   face_detector, server, tpc, harness>>

\* ------------------------------- camera_stream: the capture_frames thread
\* The daemon thread runs until the process ends.
ThreadRuns == script = "camera_stream" /\ pc # "done"

\* while is_streaming: if camera is None: time.sleep(1); continue
t_top ==
    /\ ThreadRuns /\ tpc = "top" /\ sleep_left = 0
    /\ IF ~is_streaming THEN tpc' = "exit" /\ UNCHANGED sleep_left
       ELSE IF camera = "none" THEN tpc' = "top" /\ sleep_left' = 1
       ELSE tpc' = "read" /\ UNCHANGED sleep_left
    /\ UNCHANGED <<envVars, pc, dbVars, saveVars, since_sync, retryVars, cap, failVars,
                   camera, is_streaming, face_detector, server, since_current_time,
                   sync_due, harness, ghostVars>>

\* if face_detector is not None and detection_enabled: detection, save and sync
\* are all inside this block.
DetectorGate(loaded) == IF loaded THEN "detect" ELSE "publish"

\* ret, frame = camera.read(); camera is None after stop_camera, and the
\* attribute access raises, which ends the thread.
t_read ==
    /\ ThreadRuns /\ tpc = "read"
    /\ IF camera = "none" THEN tpc' = "crashed"
       ELSE \E ret \in BOOLEAN :
               tpc' = IF ret THEN DetectorGate(face_detector) ELSE "top"
    /\ UNCHANGED <<envVars, pc, dbVars, saveVars, since_sync, sleep_left, retryVars,
                   cap, failVars, camera, is_streaming, face_detector, server,
                   since_current_time, sync_due, harness, ghostVars>>

\* detectMultiScale, current_time = time.time() and the two timer tests, which
\* read current_time and the timestamps as they are at this moment.
t_detect ==
    /\ ThreadRuns /\ tpc = "detect"
    /\ since_current_time' = 0
    /\ sync_due' = SyncDue(since_sync)
    /\ \E faces \in BOOLEAN :
          tpc' = IF faces /\ CooldownOver(since_saved) THEN "saving" ELSE "sync"
    /\ UNCHANGED <<envVars, pc, dbVars, saveVars, since_sync, sleep_left, retryVars,
                   cap, failVars, camera, is_streaming, face_detector, server, harness, ghostVars>>

\* last_saved_ts = current_time: the sample taken before the save, not the
\* time at which the save ended.
SavedStamp(sample_age) == sample_age

\* crop, encode, save_capture and last_saved_ts = current_time; an exception
\* is caught and leaves last_saved_ts alone.
t_save ==
    /\ ThreadRuns /\ tpc = "saving"
    /\ \/ /\ next_id <= MaxRows
          /\ captures' = captures \cup {next_id}
          /\ next_id' = next_id + 1
          /\ since_save_call' = 0
          /\ since_saved' = SavedStamp(since_current_time)
          /\ UNCHANGED remote
       \/ UNCHANGED <<dbVars, saveVars>>
    /\ tpc' = "sync"
    /\ UNCHANGED <<envVars, pc, since_sync, sleep_left, retryVars, cap, failVars,
                   camera, is_streaming, face_detector, server, since_current_time,
                   sync_due, harness, ghostVars>>

\* if (current_time - last_sync_ts) >= sync_interval: sync_supabase()
t_sync ==
    /\ ThreadRuns /\ tpc = "sync"
    /\ IF sync_due
       THEN SyncCallCS(default_batch) /\ tpc' = "stamp" /\ since_sync_call' = CallAge(0)
       ELSE UNCHANGED dbVars /\ tpc' = "publish" /\ UNCHANGED since_sync_call
    /\ UNCHANGED <<envVars, pc, saveVars, since_sync, sleep_left, retryVars, cap,
                   failVars, camera, is_streaming, face_detector, server,
                   since_current_time, sync_due, harness>>

\* last_sync_ts = current_time
t_stamp ==
    /\ ThreadRuns /\ tpc = "stamp"
    /\ since_sync' = since_current_time
    /\ tpc' = "publish"
    /\ UNCHANGED <<envVars, pc, dbVars, saveVars, sleep_left, retryVars, cap, failVars,
                   camera, is_streaming, face_detector, server, since_current_time,
                   sync_due, harness, ghostVars>>

\* latest_frame = display_frame.copy(); time.sleep(0.033).  current_time is
\* dead from here to the next sample.
t_publish ==
    /\ ThreadRuns /\ tpc = "publish"
    /\ since_current_time' = MaxAge
    /\ sync_due' = FALSE
    /\ tpc' = "top"
    /\ UNCHANGED <<envVars, pc, dbVars, saveVars, since_sync, sleep_left, retryVars,
                   cap, failVars, camera, is_streaming, face_detector, server, harness, ghostVars>>

CaptureFacesStep ==
    \/ cf_retry_begin \/ cf_retry_probe \/ cf_retry_wait \/ cf_retry_return
    \/ cf_read \/ cf_reconnect \/ cf_reconnect_probe \/ cf_reconnect_wait
    \/ cf_sync_noframe \/ cf_stamp_noframe
    \/ cf_detect \/ cf_save \/ cf_sync \/ cf_stamp
    \/ cf_final_sync \/ cf_release

NextCF == CaptureFacesStep \/ cf_interrupt \/ Tick

CameraStreamMain == cs_start_camera \/ cs_app_run \/ cs_final_sync

CaptureThread ==
    t_top \/ t_read \/ t_detect \/ t_save \/ t_sync \/ t_stamp \/ t_publish

NextCS == CameraStreamMain \/ cs_interrupt \/ cs_error \/ CaptureThread \/ Tick

Next == CaptureFacesStep \/ cf_interrupt \/ CameraStreamMain \/ cs_interrupt
        \/ cs_error \/ CaptureThread \/ Tick

Spec == Init /\ [][Next]_vars

\* Either script, with the sync_supabase calls of its loop timed.
InitTimed ==
    /\ remote_accepts = FALSE
    /\ camera_ok = FALSE
    /\ configured \in BOOLEAN
    /\ sqlite_faults = FALSE
    /\ InitDb
    /\ InitProcess
    /\ trial = [captures |-> {}, max_batch |-> 1, outs |-> <<>>, ran |-> FALSE]
    /\ out_cf = NoSync({})
    /\ out_cs = NoSync({})
    /\ IdleProbe
    /\ bad_rows = {}
    /\ accepted_again = {}
    /\ sync_timed = TRUE
    /\ InitCaptureFaces \/ InitCameraStream

TimedSpec == InitTimed /\ [][Next]_vars

\* capture_faces alone, against a remote free to answer anything.
InitCF == remote_accepts = FALSE /\ camera_ok = FALSE /\ InitCommon /\ InitCaptureFaces

SpecCF == InitCF /\ [][NextCF]_vars

\* camera_stream alone.
InitCS == remote_accepts = FALSE /\ camera_ok = FALSE /\ InitCommon /\ InitCameraStream

SpecCS == InitCS /\ [][NextCS]_vars

\* capture_faces against either kind of remote: one free to answer anything,
\* or one that answers every POST with 2xx.
InitFairCF ==
    remote_accepts \in BOOLEAN /\ camera_ok = FALSE /\ InitCommon /\ InitCaptureFaces

\* Fairness: the main thread of capture_faces and the capture thread of
\* camera_stream keep running, and time keeps passing.  Ctrl+C and errors are
\* not forced.
FairCF == InitFairCF /\ [][NextCF]_vars /\ WF_vars(CaptureFacesStep) /\ WF_vars(Tick)

FairCS == InitCS /\ [][NextCS]_vars /\ WF_vars(CaptureThread) /\ WF_vars(Tick)

\* The camera comes back (replugged, powered) and stays; the handle main holds
\* from before may work again or may have gone stale.
camera_back ==
    /\ script = "capture_faces" /\ ~camera_ok /\ pc \notin {"exit", "done"}
    /\ camera_ok' = TRUE
    /\ cap' \in IF cap = "open" THEN {"open", "stale"} ELSE {cap}
    /\ UNCHANGED <<script, configured, remote_accepts, sqlite_faults, pc, dbVars, saveVars,
                   since_sync, sleep_left, retryVars, failVars, streamVars, harness, ghostVars>>

InitCam ==
    remote_accepts = FALSE /\ camera_ok \in BOOLEAN /\ InitCommon /\ InitCaptureFaces

NextCam == NextCF \/ camera_back

\* capture_faces with a camera that may come back: the main thread and the
\* clock are fair, the camera's return and Ctrl+C are not forced.
FairCam == InitCam /\ [][NextCam]_vars /\ WF_vars(CaptureFacesStep) /\ WF_vars(Tick)

\* --------------------- one sync_supabase call of each script, side by side
InitSync ==
    /\ script = "sync_supabase"
    /\ pc = "done"
    /\ configured \in BOOLEAN
    /\ remote_accepts = FALSE
    /\ sqlite_faults = FALSE
    /\ camera_ok = FALSE
    /\ captures = {}
    /\ next_id = 1
    /\ remote = {}
    /\ since_saved = MaxAge
    /\ since_sync = MaxAge
    /\ face_detector = FALSE
    /\ InitProcess
    /\ \E tbl \in SUBSET RowIds, mb \in 1..MaxRows, outs \in OutcomeSeqs(MaxRows + 1) :
          trial = [captures |-> tbl, max_batch |-> mb, outs |-> outs, ran |-> FALSE]
    /\ out_cf = NoSync({})
    /\ out_cs = NoSync({})
    /\ IdleProbe
    /\ IdleCalls

ApplySync ==
    /\ ~trial.ran
    /\ trial' = [trial EXCEPT !.ran = TRUE]
    /\ \E dels \in DeleteOutcomes(MaxRows) :
          /\ out_cf' = sync_supabase_cf(configured, trial.captures, trial.max_batch,
                                        trial.outs, dels)
          /\ out_cs' = sync_supabase_cs(configured, trial.captures, trial.max_batch,
                                        trial.outs, dels)
    /\ UNCHANGED <<envVars, pc, dbVars, saveVars, since_sync, sleep_left, retryVars, cap,
                   failVars, streamVars, probeVars, callVars, watchVars, ghostVars>>

SyncSpec == InitSync /\ [][ApplySync]_vars

\* ------------------------------------- try_open_camera, probe by probe
\* The variables of the running scripts, which a try_open_camera call leaves
\* alone.
scriptVars == <<envVars, pc, dbVars, saveVars, since_sync, sleep_left, retryVars, cap,
                failVars, streamVars, callVars, watchVars, ghostVars>>

indices == <<0, 1, 2>>

\* capture_faces: api_prefs by platform.
api_prefs(sys) ==
    IF sys = "windows" THEN <<"CAP_DSHOW", "CAP_MSMF", "CAP_ANY">>
    ELSE <<"CAP_V4L2", "CAP_ANY">>

\* camera_stream: apis; DEFAULT is cv2.VideoCapture(idx) without an API.
apis == <<"CAP_ANY", "CAP_V4L2", "DEFAULT">>

\* The API of the probe the loops are at.
ProbeApi ==
    IF script = "camera_stream" THEN apis[api_at]
    ELSE IF phase = "api" THEN api_prefs(system)[api_at] ELSE "DEFAULT"

Probed(got) == [api |-> ProbeApi, idx |-> indices[idx_at], got |-> got]

\* A try_open_camera that ends after the loop over the APIs.
cf_next_probe_short(sys, ph, a, i) ==
    IF i < Len(indices) THEN [phase |-> ph, api |-> a, idx |-> i + 1]
    ELSE IF a < Len(api_prefs(sys)) THEN [phase |-> "api", api |-> a + 1, idx |-> 1]
    ELSE [phase |-> "end", api |-> a, idx |-> i]

\* capture_faces.try_open_camera, the loop variables after a failed probe:
\* for api in api_prefs: for idx in indices, then for idx in indices without
\* an API, then the end of the function.
cf_next_probe(sys, ph, a, i) ==
    IF i < Len(indices) THEN [phase |-> ph, api |-> a, idx |-> i + 1]
    ELSE IF ph = "api" /\ a < Len(api_prefs(sys))
         THEN [phase |-> "api", api |-> a + 1, idx |-> 1]
    ELSE IF ph = "api" THEN [phase |-> "noapi", api |-> a, idx |-> 1]
    ELSE [phase |-> "end", api |-> a, idx |-> i]

\* camera_stream.try_open_camera: for idx in indices: for api in apis.
cs_next_probe(a, i) ==
    IF a < Len(apis) THEN [phase |-> "api", api |-> a + 1, idx |-> i]
    ELSE IF i < Len(indices) THEN [phase |-> "api", api |-> 1, idx |-> i + 1]
    ELSE [phase |-> "end", api |-> a, idx |-> i]

\* The loops go on with the next probe, or the function returns None.
NextProbe(n) ==
    /\ phase' = n.phase
    /\ api_at' = n.api
    /\ idx_at' = n.idx
    /\ IF n.phase = "end"
       THEN ppc' = "returned" /\ result' = "None"
       ELSE ppc' = "construct" /\ UNCHANGED result

\* The first statement of a call: the loops start.
EnterCall ==
    /\ ppc' = "construct"
    /\ phase' = "api"
    /\ api_at' = 1
    /\ idx_at' = 1
    /\ probe_cap' = "none"
    /\ probe_log' = <<>>
    /\ result' = "none"

\* A release that forgets the handle.
Released_leak(n) == n
\* cap.release() of an opened handle.
Released(n) == n - 1

\* try_open_camera_with_retries calls try_open_camera (each attempt; main
\* holds no handle yet).
toc_first_call ==
    /\ script = "capture_faces" /\ ppc = "idle" /\ held = "none"
    /\ EnterCall
    /\ UNCHANGED <<scriptVars, trialVars, system, held, live_handles>>

\* reconnect_camera: if cap: cap.release(), then try_open_camera(retry_delay=0).
\* cap is the handle main holds, opened or already released.
reconnect_camera ==
    /\ script = "capture_faces" /\ ppc = "idle" /\ held \in {"open", "released"}
    /\ held' = "released"
    /\ live_handles' = IF held = "open" THEN Released(live_handles) ELSE live_handles
    /\ EnterCall
    /\ UNCHANGED <<scriptVars, trialVars, system>>

\* cap = cv2.VideoCapture(idx[, api]); if not cap.isOpened(): nothing is held
\* and the loop goes on.
toc_construct ==
    /\ script = "capture_faces" /\ ppc = "construct"
    /\ \E opened \in BOOLEAN :
          IF opened
          THEN /\ probe_cap' = "open"
               /\ live_handles' = live_handles + 1
               /\ ppc' = "test"
               /\ UNCHANGED <<phase, api_at, idx_at, probe_log, result>>
          ELSE /\ probe_cap' = "closed"
               /\ probe_log' = Append(probe_log, Probed("closed"))
               /\ NextProbe(cf_next_probe(system, phase, api_at, idx_at))
               /\ UNCHANGED live_handles
    /\ UNCHANGED <<scriptVars, trialVars, system, held>>

\* ret, frame = cap.read(): return cap, or cap.release() and the next probe.
toc_test ==
    /\ script = "capture_faces" /\ ppc = "test"
    /\ \E frame \in BOOLEAN :
          IF frame
          THEN /\ probe_log' = Append(probe_log, Probed("frame"))
               /\ ppc' = "returned"
               /\ result' = "handle"
               /\ UNCHANGED <<phase, api_at, idx_at, probe_cap, live_handles>>
          ELSE /\ probe_cap' = "released"
               /\ live_handles' = Released(live_handles)
               /\ probe_log' = Append(probe_log, Probed("noframe"))
               /\ NextProbe(cf_next_probe(system, phase, api_at, idx_at))
    /\ UNCHANGED <<scriptVars, trialVars, system, held>>

\* The caller takes the result: cap = the new handle; after None, main keeps
\* what it had (reconnect) or has nothing (retries).
toc_return ==
    /\ script = "capture_faces" /\ ppc = "returned"
    /\ held' = IF result = "handle" THEN "open" ELSE held
    /\ ppc' = "idle"
    /\ UNCHANGED <<scriptVars, trialVars, system, phase, api_at, idx_at, probe_cap,
                   probe_log, result, live_handles>>

\* camera_stream.start_camera calls try_open_camera, once.
cs_first_call ==
    /\ script = "camera_stream" /\ ppc = "idle" /\ held = "none" /\ result = "none"
    /\ EnterCall
    /\ UNCHANGED <<scriptVars, trialVars, system, held, live_handles>>

\* cv2.VideoCapture(...) inside the try: opened, not opened (release of an
\* unopened object, continue), or an exception, whose handler releases the
\* cap of the iteration before, already released.
csc_construct ==
    /\ script = "camera_stream" /\ ppc = "construct"
    /\ \E got \in {"opened", "closed", "raise"} :
          IF got = "opened"
          THEN /\ probe_cap' = "open"
               /\ live_handles' = live_handles + 1
               /\ ppc' = "test"
               /\ UNCHANGED <<phase, api_at, idx_at, probe_log, result>>
          ELSE /\ probe_cap' = IF got = "closed" THEN "closed" ELSE probe_cap
               /\ probe_log' = Append(probe_log, Probed(got))
               /\ NextProbe(cs_next_probe(api_at, idx_at))
               /\ UNCHANGED live_handles
    /\ UNCHANGED <<scriptVars, trialVars, system, held>>

\* The two reads around the resolution settings: return cap when both gave a
\* frame; otherwise cap.release(), in the loop body or in the except handler.
csc_test ==
    /\ script = "camera_stream" /\ ppc = "test"
    /\ \E got \in {"frame", "noframe", "raise"} :
          IF got = "frame"
          THEN /\ probe_log' = Append(probe_log, Probed("frame"))
               /\ ppc' = "returned"
               /\ result' = "handle"
               /\ UNCHANGED <<phase, api_at, idx_at, probe_cap, live_handles>>
          ELSE /\ probe_cap' = "released"
               /\ live_handles' = Released(live_handles)
               /\ probe_log' = Append(probe_log, Probed(got))
               /\ NextProbe(cs_next_probe(api_at, idx_at))
    /\ UNCHANGED <<scriptVars, trialVars, system, held>>

\* start_camera: camera = the returned handle or None.
csc_return ==
    /\ script = "camera_stream" /\ ppc = "returned"
    /\ held' = IF result = "handle" THEN "open" ELSE "none"
    /\ ppc' = "idle"
    /\ UNCHANGED <<scriptVars, trialVars, system, phase, api_at, idx_at, probe_cap,
                   probe_log, result, live_handles>>

\* stop_camera: if camera: camera.release(); camera = None.
csc_stop_camera ==
    /\ script = "camera_stream" /\ ppc = "idle" /\ held = "open"
    /\ held' = "none"
    /\ live_handles' = Released(live_handles)
    /\ UNCHANGED <<scriptVars, trialVars, system, ppc, phase, api_at, idx_at, probe_cap,
                   probe_log, result>>

InitProbe ==
    /\ script \in {"capture_faces", "camera_stream"}
    /\ system \in {"linux", "windows"}
    /\ pc = "done"
    /\ configured = FALSE
    /\ remote_accepts = FALSE
    /\ sqlite_faults = FALSE
    /\ camera_ok = FALSE
    /\ captures = {}
    /\ next_id = 1
    /\ remote = {}
    /\ since_saved = MaxAge
    /\ since_sync = MaxAge
    /\ face_detector = FALSE
    /\ InitProcess
    /\ trial = [captures |-> {}, max_batch |-> 1, outs |-> <<>>, ran |-> FALSE]
    /\ out_cf = NoSync({})
    /\ out_cs = NoSync({})
    /\ ppc = "idle"
    /\ phase = "api"
    /\ api_at = 1
    /\ idx_at = 1
    /\ probe_cap = "none"
    /\ probe_log = <<>>
    /\ result = "none"
    /\ held = "none"
    /\ live_handles = 0
    /\ IdleCalls

NextProbeStep ==
    \/ toc_first_call \/ reconnect_camera \/ toc_construct \/ toc_test \/ toc_return
    \/ cs_first_call \/ csc_construct \/ csc_test \/ csc_return \/ csc_stop_camera

ProbeSpec == InitProbe /\ [][NextProbeStep]_vars

\* ------------------- the periodic sync_supabase calls of capture_faces' loop
\* The loop between two calls saves rows; every sync_interval it calls
\* sync_supabase(max_batch).  max_batch, 50 in the program, is scaled to the
\* tables of the model and kept in trial.max_batch.  The remote never accepts
\* a POST that carries a row of bad_rows; with remote_accepts it accepts
\* every other POST.
CallOutcomes(rows) ==
    {outs \in OutcomeSeqs(Len(rows) + 1) :
        /\ (Range(rows) \cap bad_rows # {}) => ~RemoteAccepted(outs[1])
        /\ \A k \in 1..Len(rows) : rows[k] \in bad_rows => ~RemoteAccepted(outs[k + 1])
        /\ remote_accepts =>
              /\ (Range(rows) \cap bad_rows = {}) => RemoteAccepted(outs[1])
              /\ \A k \in 1..Len(rows) :
                    rows[k] \notin bad_rows => RemoteAccepted(outs[k + 1])}

\* How many of the POSTs the remote accepted carried row id.
AcceptCount(posts, id) ==
    Cardinality({k \in 1..Len(posts) :
                    RemoteAccepted(posts[k].status) /\ id \in Range(posts[k].ids)})

\* The ids the remote accepted in these POSTs a second time.
AcceptedAgain(rem, posts) ==
    {id \in RowIds : AcceptCount(posts, id) >= 2 \/
                     (AcceptCount(posts, id) >= 1 /\ id \in rem)}

InitCalls ==
    /\ script = "capture_faces"
    /\ pc = "between"
    /\ configured = TRUE
    /\ remote_accepts \in BOOLEAN
    /\ sqlite_faults \in BOOLEAN
    /\ camera_ok = FALSE
    /\ captures = {}
    /\ next_id = 1
    /\ remote = {}
    /\ since_saved = MaxAge
    /\ since_sync = MaxAge
    /\ face_detector = FALSE
    /\ InitProcess
    /\ \E mb \in 1..MaxRows :
          trial = [captures |-> {}, max_batch |-> mb, outs |-> <<>>, ran |-> FALSE]
    /\ out_cf = NoSync({})
    /\ out_cs = NoSync({})
    /\ IdleProbe
    /\ bad_rows \in SUBSET RowIds
    /\ accepted_again = {}
    /\ sync_timed = FALSE

\* save_capture between two calls.
loop_save ==
    /\ pc = "between"
    /\ next_id <= MaxRows
    /\ captures' = captures \cup {next_id}
    /\ next_id' = next_id + 1
    /\ UNCHANGED <<envVars, pc, remote, saveVars, since_sync, sleep_left, retryVars, cap,
                   failVars, streamVars, harness, ghostVars>>

\* sync_interval has passed.
loop_due ==
    /\ pc = "between"
    /\ pc' = "call"
    /\ UNCHANGED <<envVars, dbVars, saveVars, since_sync, sleep_left, retryVars, cap,
                   failVars, streamVars, harness, ghostVars>>

\* sync_supabase(max_batch) and last_sync_ts = time.time().
loop_sync ==
    /\ pc = "call"
    /\ pc' = "between"
    /\ LET rows == fetch_pending_cf(captures, trial.max_batch)
       IN \E outs \in CallOutcomes(rows), dels \in DeleteOutcomes(Len(rows)) :
             LET r == sync_supabase_cf(configured, captures, trial.max_batch, outs, dels)
             IN /\ captures' = r.captures
                /\ remote' = Accept(remote, r.posts)
                /\ accepted_again' = accepted_again \cup AcceptedAgain(remote, r.posts)
    /\ UNCHANGED <<envVars, next_id, saveVars, since_sync, sleep_left, retryVars, cap,
                   failVars, streamVars, trialVars, probeVars, bad_rows, watchVars,
                   ghostVars>>

NextCalls == loop_save \/ loop_due \/ loop_sync

FairCalls ==
    InitCalls /\ [][NextCalls]_vars /\ WF_vars(loop_due) /\ WF_vars(loop_sync)

\* =================================================================== claims

\* C1: every row ever saved (ids below next_id) is still in the local table or
\* was in a POST the remote answered with 2xx; so a row leaves the table only
\* after a POST containing it was accepted.  Both scripts.
C1_DeletedOnlyIfAccepted ==
    \A id \in RowIds : id < next_id => (id \in captures \/ id \in remote)

\* C1 witness: camera_stream forwarded and deleted one row while another row
\* is still local and not accepted.
C1_Witness ==
    /\ script = "camera_stream"
    /\ \E id \in RowIds : id < next_id /\ id \notin captures /\ id \in remote
    /\ \E id \in captures : id \notin remote

\* C2: in the capture_faces main loop, with Supabase configured and a remote
\* that answers every POST with 2xx, every row in the local table is
\* eventually deleted from it, unless the loop is left first.
C2_EveryRowForwarded ==
    \A id \in RowIds :
        (configured /\ remote_accepts /\ pc \in LoopPcs /\ id \in captures)
            ~> (id \notin captures \/ pc \notin LoopPcs)

\* C2 witness: a sync made in the branch of a failed read, with the camera
\* handle released after a failed reconnect, has forwarded a row.
C2_Witness ==
    /\ configured /\ remote_accepts
    /\ pc = "stamp_noframe" /\ cap = "released"
    /\ \E id \in RowIds : id < next_id /\ id \notin captures /\ id \in remote

RetryPcs == {"retries", "opening", "retry_wait"}

\* The safety part of C4.
C4_RetryInv ==
    /\ open_calls <= max_retries
    /\ pc \in RetryPcs => cap = "none"
    /\ pc = "opened" => cap = "open" /\ open_calls = attempt + 1
    /\ pc = "failed" => cap = "none" /\ open_calls = max_retries

\* C4: try_open_camera_with_retries calls try_open_camera at most max_retries
\* times, holds no handle while it is still retrying, returns a handle right
\* after the call that produced it (open_calls = attempt + 1, no further
\* call), returns None only after max_retries failed calls, and always
\* returns.
C4_BoundedRetry == []C4_RetryInv /\ <>(pc \notin RetryPcs)

\* C4 witness: the handle was returned by the third call, after two failures.
C4_Witness == pc = "opened" /\ open_calls = 3 /\ cap = "open"

\* The delays of the comment above the computation of retry_delay.
ClaimedDelays == <<3, 5, 8, 12, 18>>

\* C5 (as claimed, and as the comment in the code says): the delays passed
\* to try_open_camera are 3, 5, 8, 12, 18 in that order.
C5_DelaysAsClaimed ==
    /\ Len(delays) <= Len(ClaimedDelays)
    /\ \A k \in 1..Len(delays) : delays[k] = ClaimedDelays[k]

\* The state part of C6; fail_run counts the failed reads since the last
\* successful read or reconnect, independently of consecutive_failures.
C6_CounterInv ==
    /\ consecutive_failures \in 0..max_failures
    /\ pc = "read" => consecutive_failures < max_failures
    /\ pc = "reconnect" => consecutive_failures = max_failures /\ fail_run = max_failures

\* The step part of C6: the three resets.
C6_Resets ==
    (\/ pc = "read" /\ pc' = "detect"
     \/ pc = "reconnecting" /\ pc' = "sync_noframe"
     \/ pc = "reconnect_wait" /\ pc' = "sync_noframe") => consecutive_failures' = 0

\* C6: consecutive_failures stays in 0..max_failures and is below
\* max_failures whenever a read starts; reconnect_camera is entered only with
\* max_failures failed reads in a row behind it; a successful read, a
\* successful reconnect and a failed reconnect each leave the counter at 0.
C6_FailureCounter == []C6_CounterInv /\ [][C6_Resets]_vars

\* C6 witness: a failed reconnect has reset the counter (the handle is still
\* released) and the loop is about to read again.
C6_Witness ==
    pc = "sync_noframe" /\ cap = "released" /\ consecutive_failures = 0

\* C7 (as claimed): whenever save_capture succeeds, the previous successful
\* save_capture is at least cooldown_seconds old.  Both scripts.
C7_SavesSpaced ==
    [][next_id' > next_id => since_save_call >= cooldown_seconds]_vars

\* The rows one sync fetches: the max_batch smallest ids of the table.
TrialRows ==
    {i \in trial.captures : Cardinality({j \in trial.captures : j < i}) < trial.max_batch}

\* C8 (as claimed): on the same table, max_batch and outcomes the two
\* sync_supabase implementations issue the same POSTs and leave the same table.
C8_SameOperation == trial.ran => out_cf = out_cs

\* C9: in capture_faces.sync_supabase, after a failed batch POST every fetched
\* row is posted individually, once and in ascending id order, each with the
\* next outcome; exactly the rows whose own POST was answered 2xx are deleted.
C9_FallbackPerRow ==
    (trial.ran /\ configured /\ TrialRows # {} /\ ~RemoteAccepted(trial.outs[1])) =>
        LET posts == out_cf.posts
        IN /\ Len(posts) = 1 + Cardinality(TrialRows)
           /\ posts[1].kind = "batch"
           /\ \A k \in 2..Len(posts) :
                 /\ posts[k].kind = "single"
                 /\ Len(posts[k].ids) = 1
                 /\ posts[k].ids[1] \in TrialRows
                 /\ posts[k].status = trial.outs[k]
                 /\ k > 2 => posts[k - 1].ids[1] < posts[k].ids[1]
           /\ trial.captures \ out_cf.captures =
                 {posts[k].ids[1] : k \in {j \in 2..Len(posts) : RemoteAccepted(posts[j].status)}}

\* C9 witness: the batch was rejected, the POST of row 1 raised and row 2 was
\* still posted, accepted and deleted.
C9_Witness ==
    /\ trial.ran /\ configured /\ trial.captures = {1, 2} /\ trial.max_batch = 2
    /\ trial.outs[1] = 500 /\ trial.outs[2] = RequestException
    /\ out_cf.captures = {1}

\* C10 (as claimed): in camera_stream.sync_supabase, when the batch POST is
\* not accepted, every row whose individual POST was answered 200 or 201 is
\* gone from the local table when sync_supabase returns, whatever happens to
\* the other rows of the batch.
C10_AcceptedRowsDeleted ==
    (trial.ran /\ configured /\ TrialRows # {} /\ ~IsOkCreated(trial.outs[1])) =>
        \A k \in 2..Len(out_cs.posts) :
            out_cs.posts[k].status \in {200, 201} =>
                out_cs.posts[k].ids[1] \notin out_cs.captures

\* C11: with SUPABASE_URL or SUPABASE_ANON_KEY empty, a sync_supabase call of
\* either script issues no POST and returns with the local table as it was.
C11_NoKeysNoSync ==
    (trial.ran /\ ~configured) =>
        /\ out_cf.posts = <<>> /\ out_cf.captures = trial.captures
        /\ out_cs.posts = <<>> /\ out_cs.captures = trial.captures

\* C11 witness: an unconfigured call on a table of two rows, with a remote
\* that would have accepted the batch, has left both rows local.
C11_Witness ==
    /\ trial.ran /\ ~configured
    /\ trial.captures = {1, 2} /\ trial.max_batch = 2 /\ trial.outs[1] = 201
    /\ out_cf.captures = {1, 2} /\ out_cs.captures = {1, 2}

\* The probes of one capture_faces.try_open_camera call in the claimed order:
\* API-major over the platform's list and indices 0, 1, 2, then the indices
\* without an API.
ClaimedProbes ==
    LET prefs == IF system = "windows" THEN <<"CAP_DSHOW", "CAP_MSMF", "CAP_ANY">>
                 ELSE <<"CAP_V4L2", "CAP_ANY">>
        n == 3 * Len(prefs)
    IN [k \in 1..(n + 3) |->
           IF k <= n THEN [api |-> prefs[((k - 1) \div 3) + 1], idx |-> (k - 1) % 3]
           ELSE [api |-> "DEFAULT", idx |-> k - n - 1]]

\* C12: the probes of a capture_faces.try_open_camera call are a prefix of the
\* claimed order (so each combination is probed at most once); every probe
\* before the last one failed; the call returns a handle exactly when its last
\* probe opened and gave a frame, and None exactly when all the claimed probes
\* were made and none did.
C12_ProbeOrder ==
    script = "capture_faces" =>
        /\ Len(probe_log) <= Len(ClaimedProbes)
        /\ \A k \in 1..Len(probe_log) :
              /\ probe_log[k].api = ClaimedProbes[k].api
              /\ probe_log[k].idx = ClaimedProbes[k].idx
              /\ k < Len(probe_log) => probe_log[k].got # "frame"
        /\ ppc \in {"construct", "test"} =>
              \A k \in 1..Len(probe_log) : probe_log[k].got # "frame"
        /\ ppc = "returned" =>
              /\ result \in {"handle", "None"}
              /\ result = "handle" <=>
                    (probe_log # <<>> /\ probe_log[Len(probe_log)].got = "frame")
              /\ result = "None" <=>
                    (/\ Len(probe_log) = Len(ClaimedProbes)
                     /\ \A k \in 1..Len(probe_log) : probe_log[k].got # "frame")

\* C12 witness: on Linux the call returns the handle of index 1 without an
\* API, after the six probes with an API and index 0 without one failed.
C12_Witness ==
    /\ script = "capture_faces" /\ system = "linux"
    /\ ppc = "returned" /\ result = "handle"
    /\ Len(probe_log) = 8
    /\ probe_log[8] = [api |-> "DEFAULT", idx |-> 1, got |-> "frame"]

\* C13: the capture_faces loop is left only into the finally block; the
\* finally block makes its sync attempt and goes on to cap.release() whether
\* the attempt raised or not; the process ends with the handle released; and
\* the process does not stay in the finally block: once the loop is left, the
\* only way on is through the sync attempt and the release to the end.
C13_FinalSyncThenRelease ==
    /\ [][(pc \in LoopPcs /\ pc' \notin LoopPcs) => pc' = "finally"]_vars
    /\ [][(pc = "finally" /\ pc' # pc) => (pc' = "release" /\ cap' = cap)]_vars
    /\ [][(pc = "release" /\ pc' # pc) => (pc' = "done" /\ cap' = "released")]_vars
    /\ [](pc = "done" => cap = "released")
    /\ []<>(pc \notin {"finally", "release"})

\* C13 witness: the final sync has forwarded a row and the handle, still
\* open, is about to be released.
C13_Witness ==
    /\ pc = "release" /\ cap = "open"
    /\ \E id \in RowIds : id < next_id /\ id \notin captures /\ id \in remote

\* The state part of C14.
C14_StartInv ==
    /\ pc = "start_camera" => (~is_streaming /\ camera = "none" /\ tpc = "idle" /\ ~server)
    /\ is_streaming => camera = "open"
    /\ server => pc = "serving"
    /\ (pc = "done" /\ tpc = "idle") => (~is_streaming /\ camera = "none" /\ ~server)

\* The step part of C14: the two returns of start_camera, the one start of
\* the capture thread and the start of the server.
C14_StartSteps ==
    /\ (pc = "start_camera" /\ pc' = "started") =>
          (camera' = "open" /\ is_streaming' /\ tpc' = "top")
    /\ (pc = "start_camera" /\ pc' # pc /\ pc' # "started") =>
          (pc' = "done" /\ camera' = "none" /\ ~is_streaming' /\ tpc' = "idle" /\ ~server')
    /\ (tpc = "idle" /\ tpc' # "idle") => (pc = "start_camera" /\ camera' = "open")
    /\ (~server /\ server') => (pc = "started" /\ is_streaming)

\* C14: start_camera returns True with the handle in camera, is_streaming set
\* and the capture thread started, or False with none of these; the thread is
\* started once and only by a successful start_camera; the server runs only
\* after start_camera returned True; after a failed start is_streaming stays
\* False, camera stays None and neither thread nor server exists.
C14_StartCamera == []C14_StartInv /\ [][C14_StartSteps]_vars

\* C14 witness: the camera opened, the server runs and the capture thread
\* has read a frame.
C14_Witness ==
    script = "camera_stream" /\ pc = "serving" /\ server /\ is_streaming /\ tpc = "detect"

\* The step part of C15: no step of the loop ends it except the way into the
\* finally block (Ctrl+C or an exception), and the wait after a failed
\* reconnect ends with the counter reset.
C15_LoopSteps ==
    /\ (pc \in LoopPcs /\ pc' \notin LoopPcs) => pc' = "finally"
    /\ (pc = "reconnect_wait" /\ pc' # pc) =>
          (pc' \in {"sync_noframe", "finally"}
           /\ (pc' = "sync_noframe" => sleep_left = 0 /\ consecutive_failures' = 0))

\* C15: camera failures never end the capture_faces loop; as long as it is
\* not left (Ctrl+C) the loop comes again and again to a frame it has read
\* or, while the camera is unavailable, to a reconnect (with max_failures
\* failed reads behind it, see C6); so once the camera is available, and
\* stays so, the loop holds a working handle and reads frames again.
C15_LoopSurvivesCamera ==
    /\ [][C15_LoopSteps]_vars
    /\ []<>(pc \notin LoopPcs \/ pc = "detect" \/ (~camera_ok /\ pc = "reconnect"))

\* C15 witness: with the camera back, a reconnect has just given main a new
\* handle (no failed read since) and the loop goes on.
C15_Witness ==
    /\ camera_ok /\ pc = "sync_noframe" /\ cap = "open"
    /\ consecutive_failures = 0 /\ fail_run = 0

\* The handles somebody still refers to as open: the one the caller holds,
\* and the one of the running probe (opened and under test, or about to be
\* returned).
OwnedHandles ==
    (IF held = "open" THEN 1 ELSE 0)
    + (IF ppc = "test" \/ (ppc = "returned" /\ result = "handle") THEN 1 ELSE 0)

\* C16: in both scripts, over any sequence of try_open_camera calls, retries,
\* reconnects and stop_camera, every opened handle that is not released is
\* the caller's or the running probe's (none is leaked), and at most one
\* opened handle exists at any time.
C16_NoHandleLeak == live_handles = OwnedHandles /\ live_handles <= 1

\* C16 witness: capture_faces is reconnecting: the old handle was released,
\* one probe of this call opened a handle, got no frame and released it, and
\* the next probe has opened another.
C16_Witness ==
    /\ script = "capture_faces" /\ held = "released"
    /\ ppc = "test" /\ live_handles = 1
    /\ \E k \in 1..Len(probe_log) : probe_log[k].got = "noframe"

\* A step in which a loop calls sync_supabase.
LoopSyncCall ==
    \/ pc = "sync" /\ pc' = "stamp"
    \/ pc = "sync_noframe" /\ pc' = "stamp_noframe"
    \/ tpc = "sync" /\ tpc' = "stamp"

\* C17 (as claimed): when a loop calls sync_supabase, its previous call is at
\* least sync_interval old; and the step after the call advances last_sync_ts
\* (its age does not grow over that step), whatever the call did.  Both scripts.
C17_SyncsSpaced ==
    [][/\ LoopSyncCall => since_sync_call >= sync_interval
       /\ ((pc \in {"stamp", "stamp_noframe"} /\ pc' = "read") \/
           (tpc = "stamp" /\ tpc' = "publish")) => since_sync' <= since_sync]_vars

\* C18: one capture_faces.sync_supabase call with the keys set, on a table
\* that is not empty, posts in its batch POST exactly the
\* min(max_batch, pending) smallest ids in ascending order; every later POST
\* of the call carries a row of that batch; and a row outside the batch is
\* still in the table after the call.
C18_BatchOldestFirst ==
    (trial.ran /\ configured /\ trial.captures # {}) =>
        LET batch == out_cf.posts[1].ids
        IN /\ Len(batch) = Min(trial.max_batch, Cardinality(trial.captures))
           /\ Range(batch) = TrialRows
           /\ \A k \in 1..(Len(batch) - 1) : batch[k] < batch[k + 1]
           /\ \A k \in 1..Len(out_cf.posts) : Range(out_cf.posts[k].ids) \subseteq TrialRows
           /\ trial.captures \ TrialRows \subseteq out_cf.captures

\* C18 witness: two pending rows and max_batch = 1: row 1 alone was posted,
\* accepted and deleted; row 2 was left in the table.
C18_Witness ==
    /\ trial.ran /\ configured /\ trial.captures = {1, 2} /\ trial.max_batch = 1
    /\ Len(out_cf.posts) = 1 /\ out_cf.posts[1].ids = <<1>>
    /\ out_cf.captures = {2}

\* C19 (as claimed): in capture_faces, with the keys set, no sqlite fault and
\* a remote that accepts every POST without a permanently rejected row, a
\* pending row that is not permanently rejected is eventually forwarded and
\* deleted, whichever other rows are permanently rejected.
C19_GoodRowsNotStarved ==
    \A id \in RowIds :
        (configured /\ remote_accepts /\ ~sqlite_faults /\ id \in captures /\ id \notin bad_rows)
            ~> (id \notin captures /\ id \in remote)

\* C20 (as claimed): over every sequence of sync_supabase calls of
\* capture_faces, every pattern of POST outcomes and of _delete_local
\* failures, no row is accepted by the remote more than once.
C20_AcceptedOnce == accepted_again = {}

====
